---- MODULE Spec2Model ----
\* Grammar Correction API (src/main.py): the single attempt (get_corrections),
\* the retry controller (exception_wrapper) and the two endpoints
\* (correct_single_text, correct_batch_texts), as one sequential state machine.
\*
\* A Python string is a sequence of pieces (characters for the input texts,
\* literal fragments for messages); an f-string is the concatenation \o of its
\* pieces. An optional value is a sequence of length 0 or 1.
EXTENDS Integers, Sequences, FiniteSets, TLC

VARIABLES
    entry,        \* which function the caller invokes: "single", "batch", "wrapper"
    max_retries,  \* exception_wrapper's max_retries argument
    texts,        \* the input: TextListInput.texts, or <<TextInput.text>>
    idx,          \* position of the item being processed (0 before the first)
    pc,           \* "start", "loop" (for-loop head), "wrapper" (while-loop head), "done"
    retries,      \* exception_wrapper's local counter
    attempts,     \* calls of get_corrections made for the current item
    calls,        \* calls of get_corrections made by the whole request
    ev,           \* what chat() did at the latest call of get_corrections
    hist,         \* what chat() did at each call made for the current item, in order
    last,         \* how the latest call of get_corrections ended
    wres,         \* how the latest call of exception_wrapper ended
    results,      \* correct_batch_texts' local list
    response      \* what the caller receives

vars == <<entry, max_retries, texts, idx, pc, retries, attempts, calls, ev,
          hist, last, wres, results, response>>

-----------------------------------------------------------------------------
\* Bounds and program constants

MaxBatch == 2          \* longest batch explored
MaxRetriesArg == 2     \* largest max_retries passed in a direct call of exception_wrapper

DefaultMaxRetries == 5 \* def exception_wrapper(text, max_retries: int = 5)

Whitespace == {" "}

\* Input texts: empty, whitespace-only, plain, and with surrounding whitespace.
Texts == {<<>>, <<" ">>, <<"a">>, <<" ", "a", " ">>}

SeqsUpTo(S, n) == UNION {[1..k -> S] : k \in 0..n}

-----------------------------------------------------------------------------
\* Strings

RECURSIVE lstrip(_)
lstrip(s) == IF s # <<>> /\ Head(s) \in Whitespace THEN lstrip(Tail(s)) ELSE s

RECURSIVE rstrip(_)
rstrip(s) ==
    IF s # <<>> /\ s[Len(s)] \in Whitespace THEN rstrip(SubSeq(s, 1, Len(s) - 1)) ELSE s

\* str.strip()
strip(s) == rstrip(lstrip(s))

\* IsBlank without the strip(): `not text`
IsBlank_NoStrip(text) == text = <<>>

\* IsBlank with the test inverted: `text.strip()`
IsBlank_Inverted(text) == strip(text) # <<>>

\* `not text.strip()`: the empty string is falsy
IsBlank(text) == strip(text) = <<>>

-----------------------------------------------------------------------------
\* Data model

Corr1 == [wrong_word |-> "has", correct_word |-> "have", reason_of_error |-> "agreement"]

\* ApiResponse with whitespace stripped from original_sentence
ApiResponse_Stripped(corrections, correct_sentence, original_sentence) ==
    [corrections |-> corrections,
     correct_sentence |-> correct_sentence,
     original_sentence |-> strip(original_sentence)]

\* class ApiResponse(Answer): the dict that model_dump() gives
ApiResponse(corrections, correct_sentence, original_sentence) ==
    [corrections |-> corrections,
     correct_sentence |-> correct_sentence,
     original_sentence |-> original_sentence]

\* Contents the inference service can put in message.content. `raw` is the
\* text, `kind` what it is: JSON of the Answer schema, JSON of another shape,
\* or no JSON at all. An empty content is the empty string.
NoCorrections == <<>>
Contents ==
    {[raw |-> "json1", kind |-> "valid", corrections |-> NoCorrections,
      correct_sentence |-> <<"I have an apple.">>],
     [raw |-> "json2", kind |-> "valid", corrections |-> <<Corr1>>,
      correct_sentence |-> <<" I have ">>],
     [raw |-> "json3", kind |-> "bad_shape", corrections |-> NoCorrections,
      correct_sentence |-> <<>>],
     [raw |-> "garbage", kind |-> "not_json", corrections |-> NoCorrections,
      correct_sentence |-> <<>>]}

NoContent == [raw |-> "", kind |-> "not_json", corrections |-> NoCorrections,
              correct_sentence |-> <<>>]

\* What chat() can do. "response": it returns; message and content are
\* optional. Otherwise it raises: ResponseError, an exception that is a
\* ValueError (json.JSONDecodeError decoding the HTTP body, for one), or an
\* exception that is not (ConnectionError).
ChatReturns(message) == [kind |-> "response", error |-> "", message |-> message]
ChatRaises(class, error) == [kind |-> class, error |-> error, message |-> <<>>]

NoEvent == [kind |-> "none", error |-> "", message |-> <<>>]

Events ==
    {ChatReturns(<<[content |-> <<c>>]>>) : c \in Contents}
    \cup {ChatReturns(<<>>),                          \* no "message"
          ChatReturns(<<[content |-> <<>>]>>),        \* message without "content"
          ChatReturns(<<[content |-> <<NoContent>>]>>),   \* content == ""
          ChatRaises("ResponseError", "model not found"),
          ChatRaises("ValueError", "Expecting value"),
          ChatRaises("ConnectionError", "Failed to connect")}

\* How a call ends: it returns a value or raises. kind "http" is an
\* HTTPException with status_code and detail, kind "exc" any other exception.
Returned(value) == [kind |-> "return", status |-> 0, detail |-> <<>>, value |-> <<value>>]
HTTPException(status_code, detail) ==
    [kind |-> "http", status |-> status_code, detail |-> detail, value |-> <<>>]
OtherException(msg) == [kind |-> "exc", status |-> 0, detail |-> msg, value |-> <<>>]
NoOutcome == [kind |-> "none", status |-> 0, detail |-> <<>>, value |-> <<>>]

NoResponse == [status |-> 0, detail |-> <<>>, body |-> <<>>]

-----------------------------------------------------------------------------
\* get_corrections (lines 64-149)

\* isinstance(e, ValueError) for the exception classes of the model
IsValueError(class) == class \in {"ValueError", "JSONDecodeError", "ValidationError"}

\* Answer.model_validate_json(content): the Answer, or the exception raised.
\* pydantic reports malformed JSON and a schema mismatch alike, as a
\* ValidationError.
model_validate_json(content) ==
    IF content.kind = "valid"
    THEN [raised |-> "none", corrections |-> content.corrections,
          correct_sentence |-> content.correct_sentence]
    ELSE [raised |-> "ValidationError", corrections |-> NoCorrections,
          correct_sentence |-> <<>>]

\* str(response) in the log and error message
Repr(message) ==
    IF message = <<>> THEN "None"
    ELSE IF message[1].content = <<>> THEN "{'message': {}}"
    ELSE "{'message': {'content': ''}}"

\* `response and response.get("message") and response["message"].get("content")`
HasContent(message) ==
    /\ message # <<>>
    /\ message[1].content # <<>>
    /\ message[1].content[1].raw # ""

Raised(class, msg) == [kind |-> "raise", class |-> class, msg |-> msg, value |-> <<>>]
Completed(value) == [kind |-> "return", class |-> "", msg |-> <<>>, value |-> <<value>>]

\* The try block, lines 80-125: the dict it returns or the exception that
\* leaves it.
TryBlock(text, e) ==
    IF e.kind # "response"
    THEN Raised(e.kind, <<e.error>>)
    ELSE IF HasContent(e.message)
    THEN LET content == e.message[1].content[1]
             parsed == model_validate_json(content)
         IN  IF parsed.raised = "none"
             THEN Completed(ApiResponse(parsed.corrections, parsed.correct_sentence, text))
             ELSE IF parsed.raised = "JSONDecodeError"
             THEN Raised("ValueError",
                         <<"Ollama response was not valid JSON: ", content.raw>>)
             ELSE Raised("ValueError",
                         <<"Ollama response did not match expected format: ", content.raw>>)
    ELSE Raised("ValueError",
                <<"Unexpected Ollama response structure: ", Repr(e.message)>>)

\* The except clauses, lines 127-149
get_corrections(text, e) ==
    LET r == TryBlock(text, e)
    IN  IF r.kind = "return"
        THEN Returned(r.value[1])
        ELSE IF r.class = "ResponseError"
        THEN HTTPException(503, <<"Ollama service error: ">> \o r.msg)
        ELSE IF IsValueError(r.class)
        THEN HTTPException(502, <<"Bad response from correction service: ">> \o r.msg)
        ELSE HTTPException(500, <<"Internal server error during correction: ">> \o r.msg)

-----------------------------------------------------------------------------
\* exception_wrapper (lines 153-196)

\* IsRetryable that also retries a bad gateway: `in [502, 503, 504]`
IsRetryable_With502(status_code) == status_code \in {502, 503, 504}

\* `e.status_code in [503, 504]`
IsRetryable(status_code) == status_code \in {503, 504}

\* `while retries < max_retries`
LoopCondition(r, m) == r < m

\* `if retries > max_retries`, after the increment
BudgetExceeded(r, m) == r > m

\* LoopBody without `retries += 1`
LoopBody_NoIncrement(out, r, m) ==
    IF out.kind = "return"
    THEN [retries |-> r, ends |-> out]
    ELSE IF out.kind = "http"
    THEN IF IsRetryable(out.status)
         THEN [retries |-> r,
               ends |-> IF BudgetExceeded(r, m) THEN out ELSE NoOutcome]
         ELSE [retries |-> r, ends |-> out]
    ELSE [retries |-> r,
          ends |-> HTTPException(500, <<"Unexpected internal server error: ">> \o out.detail)]

\* One pass of the loop body, lines 159-190, on the outcome `out` of
\* get_corrections: the new value of retries, and how the wrapper ends
\* (NoOutcome when it goes back to the loop head).
LoopBody(out, r, m) ==
    IF out.kind = "return"
    THEN [retries |-> r, ends |-> out]
    ELSE IF out.kind = "http"
    THEN IF IsRetryable(out.status)
         THEN [retries |-> r + 1,
               ends |-> IF BudgetExceeded(r + 1, m) THEN out ELSE NoOutcome]
         ELSE [retries |-> r, ends |-> out]
    ELSE [retries |-> r,
          ends |-> HTTPException(500, <<"Unexpected internal server error: ">> \o out.detail)]

\* lines 192-196
AfterLoop ==
    HTTPException(500, <<"Correction failed after multiple retries without specific error.">>)

\* exception_wrapper(t, max_retries = m) as a function of what chat() does at
\* its calls: the wrapper at its loop head with retries = r, the calls h[i],
\* h[i+1], ... still to come. It gives how the wrapper ends (NoOutcome when h
\* is used up with the wrapper still in its loop), the calls made and retries.
RECURSIVE WrapperOn(_, _, _, _, _)
WrapperOn(t, h, i, r, m) ==
    IF ~LoopCondition(r, m)
    THEN [ends |-> AfterLoop, attempts |-> i - 1, retries |-> r]
    ELSE IF i > Len(h)
    THEN [ends |-> NoOutcome, attempts |-> i - 1, retries |-> r]
    ELSE LET step == LoopBody(get_corrections(t, h[i]), r, m)
         IN  IF step.ends.kind = "none"
             THEN WrapperOn(t, h, i + 1, step.retries, m)
             ELSE [ends |-> step.ends, attempts |-> i, retries |-> step.retries]

-----------------------------------------------------------------------------
\* The endpoints

\* correct_single_text, lines 221-234: the response for the wrapper's outcome
SingleResponse(w) ==
    IF w.kind = "return"
    THEN [status |-> 200, detail |-> <<>>, body |-> w.value]
    ELSE IF w.kind = "http"
    THEN [status |-> w.status, detail |-> w.detail, body |-> <<>>]
    ELSE [status |-> 500, detail |-> <<"An unexpected internal error occurred.">>,
          body |-> <<>>]

\* correct_batch_texts, lines 257-261
BlankPlaceholder(text) == ApiResponse(<<>>, <<>>, text)

\* BatchItemResult that leaves a failed item out of the list's order: the
\* error placeholder carries no original sentence
BatchItemResult_NoOriginal(text, w) ==
    IF w.kind = "return"
    THEN w.value[1]
    ELSE [corrections |-> <<>>, correct_sentence |-> <<"Error: ">> \o w.detail,
          original_sentence |-> <<>>]

\* correct_batch_texts, lines 264-291: the item's result for the wrapper's outcome
BatchItemResult(text, w) ==
    IF w.kind = "return"
    THEN w.value[1]
    ELSE IF w.kind = "http"
    THEN ApiResponse(<<>>, <<"Error: ">> \o w.detail, text)
    ELSE ApiResponse(<<>>, <<"Error: Unexpected internal server error">>, text)

\* The text the wrapper is working on
item == texts[idx]

\* WrapperEnds that records the outcome and stays in the loop: the result is
\* assigned where the code returns it
WrapperEnds_KeepLooping(w) ==
    /\ wres' = w
    /\ pc' = "wrapper"
    /\ UNCHANGED <<results, response>>

\* The wrapper ends with outcome w: control goes back to its caller.
WrapperEnds(w) ==
    /\ wres' = w
    /\ \/ /\ entry = "single"
          /\ response' = SingleResponse(w)
          /\ pc' = "done"
          /\ UNCHANGED results
       \/ /\ entry = "batch"
          /\ results' = Append(results, BatchItemResult(item, w))
          /\ pc' = "loop"
          /\ UNCHANGED response
       \/ /\ entry = "wrapper"
          /\ pc' = "done"
          /\ UNCHANGED <<results, response>>

-----------------------------------------------------------------------------
\* Initial state and actions

Init ==
    /\ entry \in {"single", "batch", "wrapper"}
    /\ texts \in IF entry = "batch" THEN SeqsUpTo(Texts, MaxBatch)
                 ELSE {<<t>> : t \in Texts}
    /\ max_retries \in IF entry = "wrapper" THEN 0..MaxRetriesArg
                       ELSE {DefaultMaxRetries}
    /\ idx = 0
    /\ pc = "start"
    /\ retries = 0
    /\ attempts = 0
    /\ calls = 0
    /\ ev = NoEvent
    /\ hist = <<>>
    /\ last = NoOutcome
    /\ wres = NoOutcome
    /\ results = <<>>
    /\ response = NoResponse

\* correct_single_text, lines 219-220
SingleRejectEmpty ==
    /\ pc = "start" /\ entry = "single"
    /\ IsBlank(texts[1])
    /\ response' = [status |-> 400, detail |-> <<"Input text cannot be empty.">>,
                    body |-> <<>>]
    /\ pc' = "done"
    /\ UNCHANGED <<entry, max_retries, texts, idx, retries, attempts, calls, ev, hist,
                   last, wres, results>>

\* correct_single_text, line 223: exception_wrapper(input_data.text)
SingleCallWrapper ==
    /\ pc = "start" /\ entry = "single"
    /\ ~IsBlank(texts[1])
    /\ idx' = 1
    /\ retries' = 0
    /\ pc' = "wrapper"
    /\ UNCHANGED <<entry, max_retries, texts, attempts, calls, ev, hist, last, wres,
                   results, response>>

\* a direct call exception_wrapper(text, max_retries)
DirectCallWrapper ==
    /\ pc = "start" /\ entry = "wrapper"
    /\ idx' = 1
    /\ retries' = 0
    /\ pc' = "wrapper"
    /\ UNCHANGED <<entry, max_retries, texts, attempts, calls, ev, hist, last, wres,
                   results, response>>

\* correct_batch_texts, lines 249-250
BatchRejectEmpty ==
    /\ pc = "start" /\ entry = "batch"
    /\ texts = <<>>
    /\ response' = [status |-> 400, detail |-> <<"Input text list cannot be empty.">>,
                    body |-> <<>>]
    /\ pc' = "done"
    /\ UNCHANGED <<entry, max_retries, texts, idx, retries, attempts, calls, ev, hist,
                   last, wres, results>>

\* correct_batch_texts, line 252
BatchStart ==
    /\ pc = "start" /\ entry = "batch"
    /\ texts # <<>>
    /\ results' = <<>>
    /\ pc' = "loop"
    /\ UNCHANGED <<entry, max_retries, texts, idx, retries, attempts, calls, ev, hist,
                   last, wres, response>>

\* correct_batch_texts, lines 253-262: the next item is blank
BatchBlankItem ==
    /\ pc = "loop" /\ idx < Len(texts)
    /\ IsBlank(texts[idx + 1])
    /\ idx' = idx + 1
    /\ results' = Append(results, BlankPlaceholder(texts[idx + 1]))
    /\ attempts' = 0
    /\ ev' = NoEvent
    /\ hist' = <<>>
    /\ last' = NoOutcome
    /\ wres' = NoOutcome
    /\ UNCHANGED <<entry, max_retries, texts, pc, retries, calls, response>>

\* BatchCallWrapper with a retry counter shared by the items: it is not reset
\* when the next item enters exception_wrapper
BatchCallWrapper_SharedCounter ==
    /\ pc = "loop" /\ idx < Len(texts)
    /\ ~IsBlank(texts[idx + 1])
    /\ idx' = idx + 1
    /\ attempts' = 0
    /\ ev' = NoEvent
    /\ hist' = <<>>
    /\ last' = NoOutcome
    /\ wres' = NoOutcome
    /\ pc' = "wrapper"
    /\ UNCHANGED <<entry, max_retries, texts, retries, calls, results, response>>

\* correct_batch_texts, lines 253-254, 266: the next item goes to exception_wrapper
BatchCallWrapper ==
    /\ pc = "loop" /\ idx < Len(texts)
    /\ ~IsBlank(texts[idx + 1])
    /\ idx' = idx + 1
    /\ retries' = 0
    /\ attempts' = 0
    /\ ev' = NoEvent
    /\ hist' = <<>>
    /\ last' = NoOutcome
    /\ wres' = NoOutcome
    /\ pc' = "wrapper"
    /\ UNCHANGED <<entry, max_retries, texts, calls, results, response>>

\* correct_batch_texts, line 293
BatchReturn ==
    /\ pc = "loop" /\ idx = Len(texts)
    /\ response' = [status |-> 200, detail |-> <<>>, body |-> results]
    /\ pc' = "done"
    /\ UNCHANGED <<entry, max_retries, texts, idx, retries, attempts, calls, ev, hist,
                   last, wres, results>>

\* exception_wrapper, lines 158-190: one pass of the while loop, chat() doing e
Attempt(e) ==
    /\ pc = "wrapper"
    /\ LoopCondition(retries, max_retries)
    /\ LET out == get_corrections(item, e)
           step == LoopBody(out, retries, max_retries)
       IN  /\ ev' = e
           /\ hist' = Append(hist, e)
           /\ last' = out
           /\ attempts' = attempts + 1
           /\ calls' = calls + 1
           /\ retries' = step.retries
           /\ IF step.ends.kind = "none"
              THEN UNCHANGED <<pc, wres, results, response>>
              ELSE WrapperEnds(step.ends)
    /\ UNCHANGED <<entry, max_retries, texts, idx>>

\* exception_wrapper, lines 158, 192-196: the loop condition fails
LoopExit ==
    /\ pc = "wrapper"
    /\ ~LoopCondition(retries, max_retries)
    /\ WrapperEnds(AfterLoop)
    /\ UNCHANGED <<entry, max_retries, texts, idx, retries, attempts, calls, ev, hist, last>>

Next ==
    \/ SingleRejectEmpty
    \/ SingleCallWrapper
    \/ DirectCallWrapper
    \/ BatchRejectEmpty
    \/ BatchStart
    \/ BatchBlankItem
    \/ BatchCallWrapper
    \/ BatchReturn
    \/ \E e \in Events : Attempt(e)
    \/ LoopExit

Spec == Init /\ [][Next]_vars

\* The request is one sequential thread of control, and each call of chat()
\* returns or raises: a step that can be taken is taken.
\* Its requests are those of Init over one blank and one non-blank text: the
\* control flow reads nothing else of a text.
FairTexts == {<<" ">>, <<"a">>}
FairInit == Init /\ \A i \in 1..Len(texts) : texts[i] \in FairTexts
FairSpec == FairInit /\ [][Next]_vars /\ WF_vars(Next)

-----------------------------------------------------------------------------
\* Vocabulary of the properties

\* exception_wrapper has ended for the current item
Finished == wres.kind # "none"

\* the endpoints call exception_wrapper with the default budget
DefaultBudget == max_retries = DefaultMaxRetries

\* retries counts the retryable failures, attempts every call: they agree
\* exactly when every call so far failed with a retryable error
EveryCallFailedRetryably == attempts > 0 /\ attempts = retries

\* every failed call so far failed with a retryable error (the latest call may
\* have succeeded)
OnlyRetryableFailures ==
    retries = attempts - (IF last.kind = "return" THEN 1 ELSE 0)

\* the text is empty or whitespace only, said without strip()
AllWhitespace(t) == \A j \in 1..Len(t) : t[j] = " "

\* d occurs in s as a contiguous run of pieces
Embeds(s, d) ==
    \E i \in 0..(Len(s) - Len(d)) : SubSeq(s, i + 1, i + Len(d)) = d

-----------------------------------------------------------------------------
\* C1. When every call of get_corrections fails with a retryable error (503),
\* exception_wrapper with the default budget makes exactly max_retries + 1
\* attempts (6), no fewer and no more, and then ends with a failure.
C1_ExactlyMaxRetriesPlusOneAttempts ==
    (Finished /\ DefaultBudget /\ EveryCallFailedRetryably)
        => (attempts = max_retries + 1 /\ wres.kind = "http")

\* C2. If get_corrections fails retryably exactly k times, k <= max_retries,
\* and then succeeds, exception_wrapper returns the successful result after
\* k + 1 attempts. So a run that has ended having seen at most max_retries
\* failures, all of them retryable, has ended with a success at attempt k + 1.
C2_SuccessAfterKFailures ==
    (Finished /\ DefaultBudget /\ OnlyRetryableFailures /\ retries <= max_retries)
        => (wres.kind = "return" /\ wres = last /\ attempts = retries + 1)

\* C3. When the retry budget is used up on retryable failures, the error that
\* exception_wrapper raises, and that POST /correct/single returns, carries the
\* status (503) and the detail of the last retryable failure.
C3_ExhaustionCarriesLastFailure ==
    (Finished /\ DefaultBudget /\ EveryCallFailedRetryably /\ wres.kind # "return")
        => /\ wres.status = 503
           /\ wres.status = last.status
           /\ wres.detail = last.detail
           /\ entry = "single"
                => (response.status = 503 /\ response.detail = last.detail)

\* C4. A call that fails with a non-retryable error (502, 500, or an exception
\* that is no HTTPException) is the last call for its item: the wrapper is no
\* longer in its loop, the failure at the first attempt leaves exactly one
\* attempt, a 502 or 500 is raised with its status and detail unchanged, and
\* the single endpoint answers with that status and detail.
C4_NoRetryOnTerminalFailure ==
    (last.kind = "exc" \/ (last.kind = "http" /\ last.status \in {500, 502}))
        => /\ pc # "wrapper"
           /\ attempts = retries + 1
           /\ wres.kind = "http"
           /\ last.kind = "http" => wres = last
           /\ entry = "single"
                => /\ pc = "done"
                   /\ response.status = last.status
                   /\ response.detail = last.detail
                   /\ response.body = <<>>

C4_Witness ==
    /\ entry = "single" /\ pc = "done"
    /\ last.kind = "http" /\ last.status = 502
    /\ attempts = 1
    /\ response.status = 502

\* C5. For a non-empty batch, whatever happens to the items, the list grows by
\* one result per item in input order, the returned list is as long as the
\* input, and result i carries input i as its original_sentence.
C5_BatchShapeAndOrder ==
    (entry = "batch" /\ texts # <<>> /\ pc # "start")
        => /\ Len(results) = (IF pc = "wrapper" THEN idx - 1 ELSE idx)
           /\ \A i \in 1..Len(results) : results[i].original_sentence = texts[i]
           /\ pc = "done"
                => /\ response.status = 200
                   /\ Len(response.body) = Len(texts)
                   /\ \A i \in 1..Len(texts) :
                        response.body[i].original_sentence = texts[i]

C5_Witness ==
    /\ entry = "batch" /\ pc = "done"
    /\ Len(texts) = 2
    /\ IsBlank(texts[1])
    /\ texts[2] = <<" ", "a", " ">>
    /\ wres.kind = "http"
    /\ Len(response.body) = 2

\* C6. A failure of any kind for a non-blank batch item does not abort the
\* request: the item's result has no corrections and an error string that
\* embeds the detail of the failure that occurred, the loop goes on, and the
\* endpoint returns 200 with the full list.
C6_FailureContainedWithItsDetail ==
    (entry = "batch" /\ Finished /\ last.kind \in {"http", "exc"})
        => /\ pc \in {"loop", "done"}
           /\ Len(results) = idx
           /\ results[idx].corrections = <<>>
           /\ Embeds(results[idx].correct_sentence, last.detail)
           /\ pc = "done" => (response.status = 200 /\ Len(response.body) = Len(texts))

\* C7. A batch item that is empty or whitespace only never reaches
\* exception_wrapper: no call of get_corrections is made for it, and its
\* result is the raw input with no corrections and an empty correct_sentence.
C7_BlankItemsSkipUpstream ==
    entry = "batch"
        => /\ (idx >= 1 /\ AllWhitespace(texts[idx]))
                => (pc # "wrapper" /\ attempts = 0 /\ wres.kind = "none")
           /\ \A i \in 1..Len(results) :
                AllWhitespace(texts[i])
                    => results[i] = [corrections |-> <<>>, correct_sentence |-> <<>>,
                                     original_sentence |-> texts[i]]

C7_Witness ==
    /\ entry = "batch" /\ pc = "done"
    /\ Len(texts) = 2
    /\ ~AllWhitespace(texts[1]) /\ calls > 0
    /\ texts[2] = <<" ">>
    /\ response.body[2].correct_sentence = <<>>
    /\ response.body[2].original_sentence = <<" ">>

\* C8. An empty text at POST /correct/single and an empty list at
\* POST /correct/batch are answered 400, and get_corrections is never called.
C8_ClientErrorsBeforeUpstream ==
    ((entry = "single" /\ texts[1] = <<>>) \/ (entry = "batch" /\ texts = <<>>))
        => /\ calls = 0
           /\ pc \in {"start", "done"}
           /\ pc = "done" => (response.status = 400 /\ response.body = <<>>)

C8_Witness ==
    /\ entry = "single" /\ texts[1] = <<>>
    /\ pc = "done" /\ response.status = 400 /\ calls = 0

\* C9. get_corrections ends a call in which the service raised ResponseError
\* with 503, a call whose payload or envelope is bad with 502, a call in which
\* anything else was raised with 500, and no call with any other status.
C9_AttemptClassification ==
    last.kind # "none"
        => /\ last.kind \in {"return", "http"}
           /\ last.kind = "http" => last.status \in {500, 502, 503}
           /\ ev.kind = "ResponseError" => (last.kind = "http" /\ last.status = 503)
           /\ (ev.kind = "response" /\ last.kind # "return")
                => (last.kind = "http" /\ last.status = 502)
           /\ ev.kind \notin {"response", "ResponseError"}
                => (last.kind = "http" /\ last.status = 500)

\* C10. When a call succeeds, the ApiResponse has the caller's text, untrimmed,
\* as original_sentence and the validated answer's corrections and
\* correct_sentence; the wrapper and both endpoints hand it on unchanged,
\* however many retries came before.
C10_SuccessPassthrough ==
    last.kind = "return"
        => LET content == ev.message[1].content[1]
               expected == [corrections |-> content.corrections,
                            correct_sentence |-> content.correct_sentence,
                            original_sentence |-> texts[idx]]
           IN  /\ content.kind = "valid"
               /\ last.value = <<expected>>
               /\ wres = last
               /\ entry = "single"
                    => (response.status = 200 /\ response.body = <<expected>>)
               /\ entry = "batch"
                    => /\ results[idx] = expected
                       /\ pc = "done" => response.body[idx] = expected

C10_Witness ==
    /\ entry = "batch" /\ pc = "done"
    /\ last.kind = "return"
    /\ retries >= 2
    /\ texts[idx] = <<" ", "a", " ">>
    /\ response.body[idx].original_sentence = <<" ", "a", " ">>
    /\ response.body[idx].corrections # <<>>

\* C11. The raise after the loop of exception_wrapper is never reached: for
\* every sequence of outcomes of get_corrections and every max_retries >= 0,
\* the wrapper never ends with the generic 500 "Correction failed after
\* multiple retries without specific error."
C11_FallbackNeverReached ==
    ~(/\ wres.kind = "http"
      /\ wres.status = 500
      /\ wres.detail =
            <<"Correction failed after multiple retries without specific error.">>)

\* C12. The budget counts the attempts after the first: with max_retries = 0
\* exception_wrapper still calls get_corrections exactly once and ends with
\* that call's result or error.
C12_ZeroBudgetStillOneCall ==
    (Finished /\ max_retries = 0)
        => /\ attempts = 1
           /\ last.kind = "return" => wres = last
           /\ last.kind = "http" => (wres.status = last.status /\ wres.detail = last.detail)

\* C13. Every non-blank batch item starts with a fresh retry counter: the calls
\* made for item j and item j's result are those of exception_wrapper started
\* at retries = 0 on what chat() did at item j's own calls, whatever happened
\* to the items before it.
C13_PerItemIsolation ==
    (entry = "batch" /\ idx >= 1 /\ ~AllWhitespace(texts[idx]))
        => LET own == WrapperOn(texts[idx], hist, 1, 0, DefaultMaxRetries)
           IN  /\ attempts = Len(hist)
               /\ attempts = own.attempts
               /\ retries = own.retries
               /\ pc = "wrapper" => wres.kind = "none"
               /\ pc # "wrapper"
                    => /\ wres = own.ends
                       /\ wres.kind # "none"
                       /\ results[idx] = BatchItemResult(texts[idx], own.ends)

C13_Witness ==
    /\ entry = "batch" /\ pc = "done"
    /\ idx = 2
    /\ results[1].correct_sentence =
          <<"Error: ", "Correction failed after multiple retries without specific error.">>
    /\ last.kind = "return"
    /\ Len(hist) = 3
    /\ results[2].correct_sentence = <<"I have an apple.">>

\* C14. Whatever the upstream does at each call, exception_wrapper ends, in
\* exactly one way: with one result, or with one error that has a status.
\* Once it has ended for an item no further call is made for that item and
\* its outcome stays. So every request, correct_batch_texts on any list
\* included, comes to its end.
C14_TerminatesWithOneOutcome ==
    /\ <>[](pc = "done")
    /\ [](Finished
            => \/ wres.kind = "return" /\ Len(wres.value) = 1
               \/ wres.kind = "http" /\ wres.status \in {500, 502, 503} /\ wres.value = <<>>)
    /\ [][(Finished /\ idx' = idx)
            => /\ wres' = wres
               /\ attempts' = attempts
               /\ calls' = calls
               /\ pc' # "wrapper"]_vars

C14_Witness ==
    /\ entry = "batch" /\ pc = "done"
    /\ Len(texts) = 2
    /\ calls = 2 * DefaultMaxRetries
    /\ wres.kind = "http"
    /\ response.status = 200

\* the non-blank items among the first n of the batch
NonBlankUpTo(n) == Cardinality({i \in 1..n : ~AllWhitespace(texts[i])})

\* C15. In a run of correct_batch_texts every non-blank item causes at least
\* one call of get_corrections, the calls of the request never exceed
\* (non-blank items) x (max_retries + 1), and the calls are sequential: each
\* call is one more call for the item at hand, made when every earlier item
\* has its result, and the loop only moves on to the next item.
C15_BatchCallBudget ==
    /\ [](entry = "batch"
            => /\ max_retries = DefaultMaxRetries
               /\ calls <= NonBlankUpTo(idx) * (max_retries + 1)
               /\ calls >= NonBlankUpTo(IF pc = "wrapper" THEN idx - 1 ELSE idx)
               /\ (idx >= 1 /\ ~AllWhitespace(texts[idx]) /\ pc # "wrapper")
                    => attempts >= 1
               /\ attempts <= max_retries + 1
               /\ pc = "wrapper" => Len(results) = idx - 1)
    /\ [][entry = "batch"
            => /\ calls' # calls
                    => /\ calls' = calls + 1
                       /\ attempts' = attempts + 1
                       /\ idx' = idx
                       /\ pc = "wrapper"
               /\ idx' # idx
                    => (idx' = idx + 1 /\ pc = "loop" /\ Len(results) = idx)]_vars

C15_Witness ==
    /\ entry = "batch" /\ pc = "done"
    /\ Len(texts) = 2
    /\ NonBlankUpTo(2) = 2
    /\ calls = DefaultMaxRetries + 1
    /\ attempts = 1
    /\ response.status = 200

====
